---- MODULE Spec2Model ----
(***************************************************************************)
(* A model of the serial-port session of src/serial.go: the SerialPort     *)
(* object, its receive buffer (a bytes.Buffer shared without a lock), the  *)
(* two goroutines started by Open (readSerialPort, processSerialPort), the *)
(* polling goroutine of WaitForRegexTimeout, and the public operations.    *)
(*                                                                         *)
(* Granularity.  A goroutine is a program counter plus its locals; one     *)
(* action is one step between two points where another goroutine can      *)
(* observe or change shared memory.  bytes.Buffer is not safe for          *)
(* concurrent use, so its operations are split where the interleaving      *)
(* changes the outcome: Write is "reslice" then "copy", ReadByte on an     *)
(* empty buffer is "test empty" then "Reset".  A panic of any goroutine    *)
(* ends the process: the variable panic records it and every action is     *)
(* disabled afterwards.                                                    *)
(***************************************************************************)
EXTENDS Integers, Sequences, FiniteSets

(***************************************************************************)
(* Program constants.                                                      *)
(***************************************************************************)
\* const EOL_DEFAULT byte = '\n'
EOL_DEFAULT == 10
\* case '\r' of removeEOL
CR == 13
\* case '\n' of removeEOL
LF == 10
\* bytes.NewBuffer(make([]uint8, 256)): length and capacity of the initial slice
BufSize == 256
\* time.Sleep(time.Millisecond * 50) of the polling goroutine
PollInterval == 50

(***************************************************************************)
(* Bounds of the model.                                                    *)
(***************************************************************************)
\* successful openPort calls in one behaviour
MaxSessions == 2
\* bytes one device sends in one session
MaxStream == 3
\* the clock stops here (milliseconds)
MaxNow == 200
\* WaitForRegexTimeout calls in one behaviour
MaxWaits == 1
\* bytes written to the transport in one behaviour
MaxTx == 1
\* bytes processSerialPort accumulates between two delimiters
MaxScreen == 3

Sessions == 1..MaxSessions
WaitIds == 1..MaxWaits
Callers == {"u1", "u2"}
\* the clock advances in steps of half a poll interval
Step == PollInterval \div 2

VARIABLES
    portIsOpen,   \* sp.portIsOpen
    eol,          \* sp.eol
    port,         \* sp.port: id of the transport handle, 0 = nil
    rxChar,       \* sp.rxChar: id of the channel, 0 = nil
    arr,          \* sp.buff: the cells of the underlying array written so far
    blen,         \* sp.buff: len(b.buf)
    off,          \* sp.buff: b.off
    nSessions,    \* number of transports opened so far
    wire,         \* per transport: bytes the device has still to send
    portCloses,   \* per transport: number of Close calls on it
    chanCloses,   \* per channel: number of close() calls on it
    rl,           \* per session: the readSerialPort goroutine
    pf,           \* per session: the processSerialPort goroutine
    cpc,          \* per caller: position inside a public operation
    cw,           \* per caller: locals of the operation in progress
    res,          \* per caller: what the last completed operation returned
    tx,           \* bytes written to the transport
    nWaits,       \* number of WaitForRegexTimeout calls that passed the open check
    poll,         \* per WaitForRegexTimeout call: its goroutine, timeExpired and c1
    now,          \* the clock, in milliseconds
    panic,        \* "" or the reason the process died
    delivered,    \* history: bytes returned by port.Read, in order
    got,          \* history: bytes returned by successful Read() calls
    gotLines,     \* history: texts returned by successful ReadLine() calls of callers
    emitted,      \* history: lines processSerialPort handed to the log
    track         \* whether the four histories are kept in this specification

vars == <<portIsOpen, eol, port, rxChar, arr, blen, off, nSessions, wire,
          portCloses, chanCloses, rl, pf, cpc, cw, res, tx, nWaits, poll, now,
          panic, delivered, got, gotLines, emitted, track>>

bufVars == <<arr, blen, off>>
goVars == <<rl, pf>>
histVars == <<delivered, got, gotLines, emitted, track>>
sessVars == <<port, rxChar, nSessions, wire, portCloses, chanCloses>>
waitVars == <<nWaits, poll, now>>

(***************************************************************************)
(* Sequences of bytes.                                                     *)
(***************************************************************************)
Min(a, b) == IF a < b THEN a ELSE b
Max(a, b) == IF a < b THEN b ELSE a

IsPrefix(s, t) == Len(s) <= Len(t) /\ SubSeq(t, 1, Len(s)) = s

\* all sequences over S of length at most n
SeqsUpTo(S, n) == UNION {[1..k -> S] : k \in 0..n}

\* index of the first occurrence of byte b in s, 0 when there is none
IndexByte(s, b) ==
    IF \E i \in 1..Len(s) : s[i] = b
    THEN CHOOSE i \in 1..Len(s) : s[i] = b /\ \A j \in 1..(i - 1) : s[j] # b
    ELSE 0

(***************************************************************************)
(* sp.buff, a bytes.Buffer: the slice b.buf is the first blen cells of an  *)
(* array, the unread part is b.buf[b.off:].  A cell of the array that was  *)
(* never written holds 0 (make zeroes the array).                          *)
(***************************************************************************)
ArrAt(i) == IF i <= Len(arr) THEN arr[i] ELSE 0

\* b.buf[b.off:]
Unread == [i \in 1..(blen - off) |-> ArrAt(off + i)]

\* Buffer.Len, returned by Available
BufLen == blen - off

\* the array after copy(b.buf[m:], p) moved k bytes of p
ArrCopy(m, p, k) ==
    [i \in 1..Max(Len(arr), m + k) |->
        IF i > m /\ i <= m + k THEN p[i - m] ELSE ArrAt(i)]

(***************************************************************************)
(* What a public operation returned.  err is "" for nil; val is the byte   *)
(* or text returned, n the count returned by Write and Available.          *)
(***************************************************************************)
Ret(op, err, val, n) == [op |-> op, err |-> err, val |-> val, n |-> n]

Alive == panic = ""

NoRl == [pc |-> "none", buf |-> <<>>, i |-> 0, m |-> 0, ch |-> 0, p |-> 0]
NoPf == [pc |-> "none", ch |-> 0, screen |-> <<>>]
\* a pattern is a literal text, optionally followed by ".*"; ok is whether
\* the pattern text compiles
NoPat == [lit |-> <<>>, tail |-> FALSE, ok |-> TRUE]
NoPoll == [pc |-> "none", wake |-> 0, pat |-> NoPat, expired |-> FALSE,
           c1 |-> <<>>, start |-> 0, t |-> 0]

(***************************************************************************)
(* New(): the buffer starts as the 256 zero bytes of make([]uint8, 256),   *)
(* the delimiter is '\n', no port, no channel, the port is not open.       *)
(***************************************************************************)
InitNew ==
    /\ portIsOpen = FALSE
    /\ eol = EOL_DEFAULT
    /\ port = 0
    /\ rxChar = 0
    /\ arr = <<>>
    /\ blen = BufSize
    /\ off = 0
    /\ nSessions = 0
    /\ wire = [s \in Sessions |-> <<>>]
    /\ portCloses = [s \in Sessions |-> 0]
    /\ chanCloses = [s \in Sessions |-> 0]
    /\ rl = [s \in Sessions |-> NoRl]
    /\ pf = [s \in Sessions |-> NoPf]
    /\ cpc = [c \in Callers |-> "idle"]
    /\ cw = [c \in Callers |-> 0]
    /\ res = [c \in Callers |-> Ret("none", "", <<>>, 0)]
    /\ tx = <<>>
    /\ nWaits = 0
    /\ poll = [w \in WaitIds |-> NoPoll]
    /\ now = 0
    /\ panic = ""
    /\ delivered = <<>>
    /\ got = <<>>
    /\ gotLines = <<>>
    /\ emitted = <<>>

\* the histories are kept
Init == InitNew /\ track = TRUE

\* the histories stay empty
InitPlain == InitNew /\ track = FALSE

\* history h extended by x
Record(h, x) == IF track THEN h \o x ELSE h

(***************************************************************************)
(* Open.  The arguments that decide the result are parity, timeout and     *)
(* stopbit; openPort is the platform call, which may fail.  dev is what    *)
(* the device behind the new transport will send.                          *)
(***************************************************************************)
ParityValid(p) == p \in {"", "N", "O", "E", "M", "S"}
StopBitValid(s) == s \in {"", "1", "1.5", "2"}
\* time.ParseDuration on the strings the model passes
DurationValid(t) == t \in {"", "1s"}

OpenError(a, portOk) ==
    IF ~ParityValid(a.parity) THEN "InvalidParity"
    ELSE IF ~DurationValid(a.timeout) THEN "InvalidTimeout"
    ELSE IF ~StopBitValid(a.stopbit) THEN "InvalidStopBits"
    ELSE IF ~portOk THEN "OpenFailed"
    ELSE ""

\* Open without the test of line 123
OpenUnchecked(c, a, portOk, dev) ==
    /\ Alive /\ cpc[c] = "idle"
    /\ IF OpenError(a, portOk) # ""
       THEN /\ res' = [res EXCEPT ![c] = Ret("Open", OpenError(a, portOk), <<>>, 0)]
            /\ UNCHANGED <<portIsOpen, sessVars, cpc, cw>>
       ELSE /\ nSessions < MaxSessions
            /\ nSessions' = nSessions + 1
            /\ port' = nSessions + 1
            /\ wire' = [wire EXCEPT ![nSessions + 1] = dev]
            /\ portIsOpen' = TRUE
            /\ cw' = [cw EXCEPT ![c] = nSessions + 1]
            /\ cpc' = [cpc EXCEPT ![c] = "open_reset"]
            /\ UNCHANGED <<res, rxChar, portCloses, chanCloses>>
    /\ UNCHANGED <<eol, bufVars, goVars, tx, waitVars, panic, histVars>>

\* lines 123-204: the open check, the argument checks, openPort, and the
\* assignments up to sp.portIsOpen = true
Open(c, a, portOk, dev) ==
    /\ Alive /\ cpc[c] = "idle"
    /\ IF portIsOpen
       THEN /\ res' = [res EXCEPT ![c] = Ret("Open", "AlreadyOpen", <<>>, 0)]
            /\ UNCHANGED <<portIsOpen, sessVars, cpc, cw>>
       ELSE IF OpenError(a, portOk) # ""
       THEN /\ res' = [res EXCEPT ![c] = Ret("Open", OpenError(a, portOk), <<>>, 0)]
            /\ UNCHANGED <<portIsOpen, sessVars, cpc, cw>>
       ELSE /\ nSessions < MaxSessions
            /\ nSessions' = nSessions + 1
            /\ port' = nSessions + 1
            /\ wire' = [wire EXCEPT ![nSessions + 1] = dev]
            /\ portIsOpen' = TRUE
            /\ cw' = [cw EXCEPT ![c] = nSessions + 1]
            /\ cpc' = [cpc EXCEPT ![c] = "open_reset"]
            /\ UNCHANGED <<res, rxChar, portCloses, chanCloses>>
    /\ UNCHANGED <<eol, bufVars, goVars, tx, waitVars, panic, histVars>>

\* line 205: sp.buff.Reset()
OpenReset(c) ==
    /\ Alive /\ cpc[c] = "open_reset"
    /\ blen' = 0 /\ off' = 0
    /\ cpc' = [cpc EXCEPT ![c] = "open_chan"]
    /\ UNCHANGED <<portIsOpen, eol, arr, sessVars, goVars, cw, res, tx, waitVars,
                   panic, histVars>>

\* line 207: sp.rxChar = make(chan byte); the new channel gets the id of the
\* transport opened by this call, which cw[c] holds
OpenChan(c) ==
    /\ Alive /\ cpc[c] = "open_chan"
    /\ rxChar' = cw[c]
    /\ cpc' = [cpc EXCEPT ![c] = "open_go"]
    /\ UNCHANGED <<portIsOpen, eol, bufVars, port, nSessions, wire, portCloses,
                   chanCloses, goVars, cw, res, tx, waitVars, panic, histVars>>

\* lines 209-213: start both goroutines and return nil
OpenGo(c) ==
    /\ Alive /\ cpc[c] = "open_go"
    /\ rl' = [rl EXCEPT ![cw[c]] = [NoRl EXCEPT !.pc = "top"]]
    /\ pf' = [pf EXCEPT ![cw[c]] = [NoPf EXCEPT !.pc = "top"]]
    /\ res' = [res EXCEPT ![c] = Ret("Open", "", <<>>, 0)]
    /\ cpc' = [cpc EXCEPT ![c] = "idle"]
    /\ cw' = [cw EXCEPT ![c] = 0]
    /\ UNCHANGED <<portIsOpen, eol, bufVars, sessVars, tx, waitVars, panic,
                   histVars>>

(***************************************************************************)
(* Close: the test, the flag, the channel, the transport.                  *)
(***************************************************************************)
\* Close without the test of line 218
CloseUnchecked(c) ==
    /\ Alive /\ cpc[c] = "idle"
    /\ cpc' = [cpc EXCEPT ![c] = "close_flip"]
    /\ UNCHANGED <<portIsOpen, eol, bufVars, sessVars, goVars, cw, res, tx,
                   waitVars, panic, histVars>>

\* line 218
Close(c) ==
    /\ Alive /\ cpc[c] = "idle"
    /\ IF portIsOpen
       THEN cpc' = [cpc EXCEPT ![c] = "close_flip"] /\ UNCHANGED res
       ELSE res' = [res EXCEPT ![c] = Ret("Close", "", <<>>, 0)] /\ UNCHANGED cpc
    /\ UNCHANGED <<portIsOpen, eol, bufVars, sessVars, goVars, cw, tx, waitVars,
                   panic, histVars>>

\* line 219
CloseFlip(c) ==
    /\ Alive /\ cpc[c] = "close_flip"
    /\ portIsOpen' = FALSE
    /\ cpc' = [cpc EXCEPT ![c] = "close_chan"]
    /\ UNCHANGED <<eol, bufVars, sessVars, goVars, cw, res, tx, waitVars, panic,
                   histVars>>

\* line 220: close(sp.rxChar) panics on a nil or an already closed channel
CloseChan(c) ==
    /\ Alive /\ cpc[c] = "close_chan"
    /\ IF rxChar = 0
       THEN panic' = "close of nil channel" /\ UNCHANGED <<chanCloses, cpc>>
       ELSE IF chanCloses[rxChar] > 0
       THEN panic' = "close of closed channel" /\ UNCHANGED <<chanCloses, cpc>>
       ELSE /\ chanCloses' = [chanCloses EXCEPT ![rxChar] = 1]
            /\ cpc' = [cpc EXCEPT ![c] = "close_port"]
            /\ UNCHANGED panic
    /\ UNCHANGED <<portIsOpen, eol, bufVars, port, rxChar, nSessions, wire,
                   portCloses, goVars, cw, res, tx, waitVars, histVars>>

\* line 222: return sp.port.Close(); a transport closed before reports an
\* error.  What the device had still to send is never read.
ClosePort(c) ==
    /\ Alive /\ cpc[c] = "close_port"
    /\ portCloses' = [portCloses EXCEPT ![port] = @ + 1]
    /\ wire' = [wire EXCEPT ![port] = <<>>]
    /\ res' = [res EXCEPT ![c] =
                 Ret("Close", IF portCloses[port] > 0 THEN "PortError" ELSE "", <<>>, 0)]
    /\ cpc' = [cpc EXCEPT ![c] = "idle"]
    /\ UNCHANGED <<portIsOpen, eol, bufVars, port, rxChar, nSessions,
                   chanCloses, goVars, cw, tx, waitVars, panic, histVars>>

(***************************************************************************)
(* readSerialPort, one goroutine per successful Open.                      *)
(***************************************************************************)
\* lines 398-399: for sp.portIsOpen, then sp.port is evaluated and its Read
\* is entered: the call stays on that transport
readTop(s) ==
    /\ Alive /\ rl[s].pc = "top"
    /\ rl' = [rl EXCEPT ![s] =
                IF portIsOpen THEN [NoRl EXCEPT !.pc = "read", !.p = port]
                ELSE [NoRl EXCEPT !.pc = "done"]]
    /\ UNCHANGED <<portIsOpen, eol, bufVars, sessVars, pf, cpc, cw, res, tx,
                   waitVars, panic, histVars>>

\* line 399: n, _ := sp.port.Read(rxBuff).  The call returns the next k bytes
\* of the device (k = 0: a timeout or an error, both ignored by the code);
\* on a closed transport it returns no byte.
readPort(s, k) ==
    /\ Alive /\ rl[s].pc = "read"
    /\ k <= Len(wire[rl[s].p])
    /\ portCloses[rl[s].p] > 0 => k = 0
    /\ rl' = [rl EXCEPT ![s].pc = "write", ![s].p = 0,
                         ![s].buf = SubSeq(wire[rl[s].p], 1, k)]
    /\ wire' = [wire EXCEPT ![rl[s].p] = SubSeq(@, k + 1, Len(@))]
    /\ delivered' = Record(delivered, SubSeq(wire[rl[s].p], 1, k))
    /\ UNCHANGED <<portIsOpen, eol, bufVars, port, rxChar, nSessions, portCloses,
                   chanCloses, pf, cpc, cw, res, tx, waitVars, panic, got,
                   gotLines, emitted, track>>

\* line 401, first half of Buffer.Write: m = len(b.buf); b.buf = b.buf[:m+n]
\* (tryGrowByReslice; the array of 256 cells is never exhausted here)
readWrite(s) ==
    /\ Alive /\ rl[s].pc = "write"
    /\ blen + Len(rl[s].buf) <= BufSize
    /\ blen' = blen + Len(rl[s].buf)
    /\ rl' = [rl EXCEPT ![s].pc = "copy", ![s].m = blen]
    /\ UNCHANGED <<portIsOpen, eol, arr, off, sessVars, pf, cpc, cw, res, tx,
                   waitVars, panic, histVars>>

\* line 401, second half of Buffer.Write: copy(b.buf[m:], p).  b.buf[m:]
\* panics when the slice has meanwhile become shorter than m.
readCopy(s) ==
    /\ Alive /\ rl[s].pc = "copy"
    /\ IF rl[s].m > blen
       THEN /\ panic' = "slice bounds out of range"
            /\ UNCHANGED <<arr, rl>>
       ELSE /\ arr' = ArrCopy(rl[s].m, rl[s].buf, Min(Len(rl[s].buf), blen - rl[s].m))
            /\ rl' = [rl EXCEPT ![s].pc = "chk", ![s].i = 1, ![s].m = 0]
            /\ UNCHANGED panic
    /\ UNCHANGED <<portIsOpen, eol, blen, off, sessVars, pf, cpc, cw, res, tx,
                   waitVars, histVars>>

\* lines 402-404: the next byte of the batch; if sp.portIsOpen, evaluate
\* sp.rxChar and start the send
readChk(s) ==
    /\ Alive /\ rl[s].pc = "chk"
    /\ rl' = [rl EXCEPT ![s] =
                IF rl[s].i > Len(rl[s].buf) THEN [NoRl EXCEPT !.pc = "top"]
                ELSE IF portIsOpen THEN [@ EXCEPT !.pc = "send", !.ch = rxChar]
                ELSE [@ EXCEPT !.i = @ + 1]]
    /\ UNCHANGED <<portIsOpen, eol, bufVars, sessVars, pf, cpc, cw, res, tx,
                   waitVars, panic, histVars>>

\* line 404: a send on a closed channel panics, also when the channel is
\* closed while the sender is blocked
readSendClosed(s) ==
    /\ Alive /\ rl[s].pc = "send"
    /\ chanCloses[rl[s].ch] > 0
    /\ panic' = "send on closed channel"
    /\ UNCHANGED <<portIsOpen, eol, bufVars, sessVars, goVars, cpc, cw, res, tx,
                   waitVars, histVars>>

(***************************************************************************)
(* processSerialPort, one goroutine per successful Open.                   *)
(***************************************************************************)
\* lines 414-415: if sp.portIsOpen, evaluate sp.rxChar and start the receive
procTop(s) ==
    /\ Alive /\ pf[s].pc = "top"
    /\ pf' = [pf EXCEPT ![s] =
                IF portIsOpen THEN [@ EXCEPT !.pc = "recv", !.ch = rxChar]
                ELSE [NoPf EXCEPT !.pc = "done"]]
    /\ UNCHANGED <<portIsOpen, eol, bufVars, sessVars, rl, cpc, cw, res, tx,
                   waitVars, panic, histVars>>

\* the accumulated line has room for byte b
procRoom(f, b) == b = eol \/ Len(f.screen) < MaxScreen

\* lines 417-425: the switch on the received byte
procByte(f, b) ==
    IF b = eol THEN [f EXCEPT !.pc = "top", !.ch = 0, !.screen = <<>>]
    ELSE [f EXCEPT !.pc = "top", !.ch = 0, !.screen = Append(@, b)]

procLog(f, b) ==
    IF b = eol THEN Record(emitted, <<Append(f.screen, b)>>) ELSE emitted

\* lines 404 and 415: the unbuffered channel hands byte i of the reader's
\* batch to a receiver waiting on the same channel
handoff(s, r) ==
    /\ Alive /\ rl[s].pc = "send" /\ pf[r].pc = "recv"
    /\ rl[s].ch = pf[r].ch
    /\ chanCloses[rl[s].ch] = 0
    /\ procRoom(pf[r], rl[s].buf[rl[s].i])
    /\ pf' = [pf EXCEPT ![r] = procByte(@, rl[s].buf[rl[s].i])]
    /\ emitted' = procLog(pf[r], rl[s].buf[rl[s].i])
    /\ rl' = [rl EXCEPT ![s].pc = "chk", ![s].i = @ + 1, ![s].ch = 0]
    /\ UNCHANGED <<portIsOpen, eol, bufVars, sessVars, cpc, cw, res, tx,
                   waitVars, panic, delivered, got, gotLines, track>>

\* line 415: a receive on a closed channel returns the zero byte at once
procRecvClosed(r) ==
    /\ Alive /\ pf[r].pc = "recv"
    /\ chanCloses[pf[r].ch] > 0
    /\ procRoom(pf[r], 0)
    /\ pf' = [pf EXCEPT ![r] = procByte(@, 0)]
    /\ emitted' = procLog(pf[r], 0)
    /\ UNCHANGED <<portIsOpen, eol, bufVars, sessVars, rl, cpc, cw, res, tx,
                   waitVars, panic, delivered, got, gotLines, track>>

(***************************************************************************)
(* Read, ReadLine, Available, EOL, Write, Print.                           *)
(***************************************************************************)
\* Read without the test of line 311
ReadUnchecked(c) ==
    /\ Alive /\ cpc[c] = "idle"
    /\ IF blen <= off
       THEN /\ cpc' = [cpc EXCEPT ![c] = "rd_reset"]
            /\ UNCHANGED <<off, res, got>>
       ELSE /\ off' = off + 1
            /\ res' = [res EXCEPT ![c] = Ret("Read", "", <<ArrAt(off + 1)>>, 0)]
            /\ got' = Record(got, <<ArrAt(off + 1)>>)
            /\ UNCHANGED cpc
    /\ UNCHANGED <<portIsOpen, eol, arr, blen, sessVars, goVars, cw, tx, waitVars,
                   panic, delivered, gotLines, emitted, track>>

\* lines 310-317 with Buffer.ReadByte: on a non-empty buffer the byte at
\* b.off is returned and b.off advances; on an empty one ReadByte goes on
\* to Reset (next action)
Read(c) ==
    /\ Alive /\ cpc[c] = "idle"
    /\ IF ~portIsOpen
       THEN /\ res' = [res EXCEPT ![c] = Ret("Read", "NotOpen", <<0>>, 0)]
            /\ UNCHANGED <<off, cpc, got>>
       ELSE IF blen <= off
       THEN /\ cpc' = [cpc EXCEPT ![c] = "rd_reset"]
            /\ UNCHANGED <<off, res, got>>
       ELSE /\ off' = off + 1
            /\ res' = [res EXCEPT ![c] = Ret("Read", "", <<ArrAt(off + 1)>>, 0)]
            /\ got' = Record(got, <<ArrAt(off + 1)>>)
            /\ UNCHANGED cpc
    /\ UNCHANGED <<portIsOpen, eol, arr, blen, sessVars, goVars, cw, tx, waitVars,
                   panic, delivered, gotLines, emitted, track>>

\* Buffer.ReadByte on the empty buffer: b.Reset(); return 0, io.EOF
ReadReset(c) ==
    /\ Alive /\ cpc[c] = "rd_reset"
    /\ blen' = 0 /\ off' = 0
    /\ res' = [res EXCEPT ![c] = Ret("Read", "EOF", <<0>>, 0)]
    /\ cpc' = [cpc EXCEPT ![c] = "idle"]
    /\ UNCHANGED <<portIsOpen, eol, arr, sessVars, goVars, cw, tx, waitVars,
                   panic, histVars>>

\* lines 438-452: every '\r' and every '\n' of the line is dropped
removeEOL(line) == SelectSeq(line, LAMBDA b : b # CR /\ b # LF)

\* Buffer.ReadString(delim), that is readSlice: the unread bytes up to and
\* including the first delim, or all of them (with io.EOF) when there is none
ReadStringLine(delim) ==
    IF IndexByte(Unread, delim) > 0
    THEN SubSeq(Unread, 1, IndexByte(Unread, delim))
    ELSE Unread

ReadStringErr(delim) == IF IndexByte(Unread, delim) > 0 THEN "" ELSE "EOF"

\* b.off after readSlice: b.off = end
ReadStringOff(delim) == off + Len(ReadStringLine(delim))

\* lines 324-336: what ReadLine returns in the current state
ReadLineRet ==
    IF ~portIsOpen THEN Ret("ReadLine", "NotOpen", <<>>, 0)
    ELSE IF ReadStringErr(eol) # "" THEN Ret("ReadLine", ReadStringErr(eol), <<>>, 0)
    ELSE Ret("ReadLine", "", removeEOL(ReadStringLine(eol)), 0)

\* b.off after ReadLine
ReadLineOff == IF portIsOpen THEN ReadStringOff(eol) ELSE off

ReadLine(c) ==
    /\ Alive /\ cpc[c] = "idle"
    /\ res' = [res EXCEPT ![c] = ReadLineRet]
    /\ off' = ReadLineOff
    /\ gotLines' = IF ReadLineRet.err = "" THEN Record(gotLines, <<ReadLineRet.val>>)
                   ELSE gotLines
    /\ UNCHANGED <<portIsOpen, eol, arr, blen, sessVars, goVars, cpc, cw, tx,
                   waitVars, panic, delivered, got, emitted, track>>

\* lines 383-385
Available(c) ==
    /\ Alive /\ cpc[c] = "idle"
    /\ res' = [res EXCEPT ![c] = Ret("Available", "", <<>>, BufLen)]
    /\ UNCHANGED <<portIsOpen, eol, bufVars, sessVars, goVars, cpc, cw, tx,
                   waitVars, panic, histVars>>

\* lines 388-390
EOL(c, b) ==
    /\ Alive /\ cpc[c] = "idle"
    /\ eol' = b
    /\ res' = [res EXCEPT ![c] = Ret("EOL", "", <<>>, 0)]
    /\ UNCHANGED <<portIsOpen, bufVars, sessVars, goVars, cpc, cw, tx, waitVars,
                   panic, histVars>>

\* sp.port.Write(data): the transport takes the bytes, or fails (always on a
\* closed transport)
PortWriteOk(ok) == ok /\ portCloses[port] = 0

\* lines 228-240
Write(c, data, ok) ==
    /\ Alive /\ cpc[c] = "idle"
    /\ Len(tx) + Len(data) <= MaxTx
    /\ IF ~portIsOpen
       THEN res' = [res EXCEPT ![c] = Ret("Write", "NotOpen", <<>>, 0)] /\ UNCHANGED tx
       ELSE IF PortWriteOk(ok)
       THEN /\ tx' = tx \o data
            /\ res' = [res EXCEPT ![c] = Ret("Write", "", <<>>, Len(data))]
       ELSE res' = [res EXCEPT ![c] = Ret("Write", "WriteError", <<>>, 0)] /\ UNCHANGED tx
    /\ UNCHANGED <<portIsOpen, eol, bufVars, sessVars, goVars, cpc, cw, waitVars,
                   panic, histVars>>

\* lines 243-255, SerialPort.Print
PrintStr(c, str, ok) ==
    /\ Alive /\ cpc[c] = "idle"
    /\ Len(tx) + Len(str) <= MaxTx
    /\ IF ~portIsOpen
       THEN res' = [res EXCEPT ![c] = Ret("Print", "NotOpen", <<>>, 0)] /\ UNCHANGED tx
       ELSE IF PortWriteOk(ok)
       THEN /\ tx' = tx \o str
            /\ res' = [res EXCEPT ![c] = Ret("Print", "", <<>>, 0)]
       ELSE res' = [res EXCEPT ![c] = Ret("Print", "WriteError", <<>>, 0)] /\ UNCHANGED tx
    /\ UNCHANGED <<portIsOpen, eol, bufVars, sessVars, goVars, cpc, cw, waitVars,
                   panic, histVars>>

(***************************************************************************)
(* WaitForRegexTimeout: the caller, the polling goroutine, the timer.      *)
(***************************************************************************)
MatchAt(line, lit, i) ==
    /\ i + Len(lit) - 1 <= Len(line)
    /\ SubSeq(line, i, i + Len(lit) - 1) = lit

HasMatch(line, p) == \E i \in 1..(Len(line) + 1) : MatchAt(line, p.lit, i)

MatchPos(line, p) ==
    CHOOSE i \in 1..(Len(line) + 1) :
        MatchAt(line, p.lit, i) /\ \A j \in 1..(i - 1) : ~MatchAt(line, p.lit, j)

\* regExpPatttern.FindAllString(line, -1)[0]: the leftmost match; a trailing
\* ".*" extends it to the end of the line
FirstMatch(line, p) ==
    IF p.tail THEN SubSeq(line, MatchPos(line, p), Len(line)) ELSE p.lit

\* WaitForRegexTimeout without the test of line 340
WaitForRegexTimeoutUnchecked(c, p, t) ==
    /\ Alive /\ cpc[c] = "idle"
    /\ IF ~p.ok
       THEN /\ panic' = "regexp: Compile: error parsing regexp"
            /\ UNCHANGED <<cpc, cw, nWaits, poll, res>>
       ELSE /\ nWaits < MaxWaits
            /\ now + t + PollInterval <= MaxNow
            /\ nWaits' = nWaits + 1
            /\ poll' = [poll EXCEPT ![nWaits + 1] =
                          [NoPoll EXCEPT !.pc = "top", !.pat = p, !.start = now, !.t = t]]
            /\ cw' = [cw EXCEPT ![c] = nWaits + 1]
            /\ cpc' = [cpc EXCEPT ![c] = "wait_select"]
            /\ UNCHANGED <<res, panic>>
    /\ UNCHANGED <<portIsOpen, eol, bufVars, sessVars, goVars, tx, now, histVars>>

\* lines 339-349: the open test, regexp.MustCompile (which panics on a
\* pattern that does not compile), c1 and the go statement; the timer of
\* line 371 starts with the call
WaitForRegexTimeout(c, p, t) ==
    /\ Alive /\ cpc[c] = "idle"
    /\ IF ~portIsOpen
       THEN /\ res' = [res EXCEPT ![c] = Ret("WaitForRegexTimeout", "NotOpen", <<>>, 0)]
            /\ UNCHANGED <<cpc, cw, nWaits, poll, panic>>
       ELSE IF ~p.ok
       THEN /\ panic' = "regexp: Compile: error parsing regexp"
            /\ UNCHANGED <<cpc, cw, nWaits, poll, res>>
       ELSE /\ nWaits < MaxWaits
            /\ now + t + PollInterval <= MaxNow
            /\ nWaits' = nWaits + 1
            /\ poll' = [poll EXCEPT ![nWaits + 1] =
                          [NoPoll EXCEPT !.pc = "top", !.pat = p, !.start = now, !.t = t]]
            /\ cw' = [cw EXCEPT ![c] = nWaits + 1]
            /\ cpc' = [cpc EXCEPT ![c] = "wait_select"]
            /\ UNCHANGED <<res, panic>>
    /\ UNCHANGED <<portIsOpen, eol, bufVars, sessVars, goVars, tx, now, histVars>>

\* the loop without its test of timeExpired
pollTopForever(w) ==
    /\ Alive /\ poll[w].pc = "top"
    /\ poll' = [poll EXCEPT ![w] = [@ EXCEPT !.pc = "sleep", !.wake = now + PollInterval]]
    /\ UNCHANGED <<portIsOpen, eol, bufVars, sessVars, goVars, cpc, cw, res, tx,
                   nWaits, now, panic, histVars>>

\* lines 352-353: for !timeExpired { time.Sleep(50 ms)
pollTop(w) ==
    /\ Alive /\ poll[w].pc = "top"
    /\ poll' = [poll EXCEPT ![w] =
                  IF poll[w].expired THEN [@ EXCEPT !.pc = "done"]
                  ELSE [@ EXCEPT !.pc = "sleep", !.wake = now + PollInterval]]
    /\ UNCHANGED <<portIsOpen, eol, bufVars, sessVars, goVars, cpc, cw, res, tx,
                   nWaits, now, panic, histVars>>

\* lines 354-363: after the sleep, ReadLine; a line with a match is
\* published on c1 (capacity 1, so the send never blocks) and the loop ends
pollRead(w) ==
    /\ Alive /\ poll[w].pc = "sleep"
    /\ now >= poll[w].wake
    /\ off' = ReadLineOff
    /\ poll' = [poll EXCEPT ![w] =
                  IF ReadLineRet.err = "" /\ HasMatch(ReadLineRet.val, poll[w].pat)
                  THEN [@ EXCEPT !.pc = "done",
                                 !.c1 = <<FirstMatch(ReadLineRet.val, poll[w].pat)>>]
                  ELSE [@ EXCEPT !.pc = "top"]]
    /\ UNCHANGED <<portIsOpen, eol, arr, blen, sessVars, goVars, cpc, cw, res, tx,
                   nWaits, now, panic, histVars>>

\* lines 367-370: case data := <-c1
selectData(c) ==
    /\ Alive /\ cpc[c] = "wait_select"
    /\ poll[cw[c]].c1 # <<>>
    /\ res' = [res EXCEPT ![c] = Ret("WaitForRegexTimeout", "", poll[cw[c]].c1[1], 0)]
    /\ poll' = [poll EXCEPT ![cw[c]].c1 = <<>>]
    /\ cpc' = [cpc EXCEPT ![c] = "idle"]
    /\ cw' = [cw EXCEPT ![c] = 0]
    /\ UNCHANGED <<portIsOpen, eol, bufVars, sessVars, goVars, tx, nWaits, now,
                   panic, histVars>>

\* the timer of time.After(timeout) has fired
TimerFired(w) == now >= poll[w].start + poll[w].t

\* lines 371-374: case <-time.After(timeout)
selectTimeout(c) ==
    /\ Alive /\ cpc[c] = "wait_select"
    /\ TimerFired(cw[c])
    /\ res' = [res EXCEPT ![c] = Ret("WaitForRegexTimeout", "Timeout", <<>>, 0)]
    /\ poll' = [poll EXCEPT ![cw[c]].expired = TRUE]
    /\ cpc' = [cpc EXCEPT ![c] = "idle"]
    /\ cw' = [cw EXCEPT ![c] = 0]
    /\ UNCHANGED <<portIsOpen, eol, bufVars, sessVars, goVars, tx, nWaits, now,
                   panic, histVars>>

\* a polling goroutine or a waiting caller can notice the time
WaitActive ==
    (\E w \in WaitIds : poll[w].pc \in {"top", "sleep"})
        \/ (\E c \in Callers : cpc[c] = "wait_select")

\* time passes
Tick ==
    /\ Alive
    /\ now + Step <= MaxNow
    /\ WaitActive
    /\ now' = now + Step
    /\ UNCHANGED <<portIsOpen, eol, bufVars, sessVars, goVars, cpc, cw, res, tx,
                   nWaits, poll, panic, histVars>>

(***************************************************************************)
(* Inputs.                                                                 *)
(***************************************************************************)
\* arguments of Open: valid and invalid values of each
OpenArgs == [parity : {"N", "X"}, timeout : {"", "abc"}, stopbit : {"1", "3"}]
GoodArgs == [parity |-> "N", timeout |-> "", stopbit |-> "1"]

\* 'a' and ';'
ByteA == {97}
Semi == {59}

PatA == [lit |-> <<97>>, tail |-> FALSE, ok |-> TRUE]
PatATail == [lit |-> <<97>>, tail |-> TRUE, ok |-> TRUE]
\* a pattern such as "(" that regexp.Compile rejects
PatBad == [lit |-> <<>>, tail |-> FALSE, ok |-> FALSE]

(***************************************************************************)
(* The goroutines started by Open.                                         *)
(***************************************************************************)
Background ==
    \/ \E s \in Sessions : readTop(s)
    \/ \E s \in Sessions : \E k \in 0..MaxStream : readPort(s, k)
    \/ \E s \in Sessions : readWrite(s)
    \/ \E s \in Sessions : readCopy(s)
    \/ \E s \in Sessions : readChk(s)
    \/ \E s \in Sessions : procTop(s)
    \/ \E s, r \in Sessions : handoff(s, r)

BackgroundClosed ==
    \/ \E s \in Sessions : readSendClosed(s)
    \/ \E s \in Sessions : procRecvClosed(s)

OpenSteps(c) == OpenReset(c) \/ OpenChan(c) \/ OpenGo(c)
CloseSteps(c) == CloseFlip(c) \/ CloseChan(c) \/ ClosePort(c)

(***************************************************************************)
(* SpecRead: one session, the device sends any bytes of {1, 2} in any      *)
(* batching, one caller that only calls Read.                              *)
(***************************************************************************)
NextRead ==
    \/ \E dev \in SeqsUpTo({1, 2}, MaxStream) :
          nSessions = 0 /\ Open("u1", GoodArgs, TRUE, dev)
    \/ OpenSteps("u1")
    \/ Background
    \/ Read("u1")
    \/ ReadReset("u1")

SpecRead == Init /\ [][NextRead]_vars

\* every byte the device had to send was read from the transport and every
\* byte read from the transport was appended to the buffer
AllAppended ==
    /\ port # 0 /\ wire[port] = <<>>
    /\ \A s \in Sessions : rl[s].pc \notin {"write", "copy"}

\* no caller is inside an operation
CallersIdle == \A c \in Callers : cpc[c] = "idle"

\* C1: the bytes returned by successful Read() calls are a prefix of the bytes
\* the transport delivered, and once everything delivered was appended and
\* Read() has drained the buffer they are the whole delivered sequence.
C1_ReadReconstructs ==
    /\ IsPrefix(got, delivered)
    /\ (AllAppended /\ CallersIdle /\ BufLen = 0 /\ portIsOpen) => got = delivered

(***************************************************************************)
(* SpecLines: the delimiter is chosen before Open, the device sends any    *)
(* bytes of {'a', '\r', '\n', ';'}, and the caller calls ReadLine only     *)
(* after all of them were appended to the buffer.                          *)
(***************************************************************************)
NextLines ==
    \/ \E b \in {LF} \cup Semi : nSessions = 0 /\ EOL("u1", b)
    \/ \E dev \in SeqsUpTo(ByteA \cup Semi \cup {CR, LF}, MaxStream) :
          nSessions = 0 /\ Open("u1", GoodArgs, TRUE, dev)
    \/ OpenSteps("u1")
    \/ Background
    \/ AllAppended /\ portIsOpen /\ ReadLine("u1")

SpecLines == Init /\ [][NextLines]_vars

\* the segments of s, each ending with its delimiter d
RECURSIVE SplitLines(_, _)
SplitLines(s, d) ==
    IF IndexByte(s, d) = 0 THEN <<>>
    ELSE <<SubSeq(s, 1, IndexByte(s, d))>>
             \o SplitLines(SubSeq(s, IndexByte(s, d) + 1, Len(s)), d)

\* a segment without its delimiter and without a carriage return just before it
StripLine(seg) ==
    IF Len(seg) >= 2 /\ seg[Len(seg) - 1] = CR
    THEN SubSeq(seg, 1, Len(seg) - 2)
    ELSE SubSeq(seg, 1, Len(seg) - 1)

ExpectedLines(s, d) ==
    [i \in 1..Len(SplitLines(s, d)) |-> StripLine(SplitLines(s, d)[i])]

\* C2: once a sequence with k delimiters is fully appended, the successful
\* ReadLine() calls return, in order, its k segments less the delimiter and a
\* carriage return right before it, and ReadLine() fails with io.EOF
\* (Incomplete) only after all k were returned.
C2_ReadLineSegments ==
    /\ IsPrefix(gotLines, ExpectedLines(delivered, eol))
    /\ (res["u1"].op = "ReadLine" /\ res["u1"].err = "EOF")
          => gotLines = ExpectedLines(delivered, eol)

(***************************************************************************)
(* SpecPoll: one session, the device sends any bytes of {'a', '\n'}, and   *)
(* the caller polls ReadLine and Available between the appends of the     *)
(* reader (never while sp.buff.Write is running, so no call races).        *)
(***************************************************************************)
\* no readSerialPort goroutine is inside sp.buff.Write
NoAppendRunning == \A s \in Sessions : rl[s].pc \notin {"write", "copy"}

NextPoll ==
    \/ \E dev \in SeqsUpTo(ByteA \cup {LF}, MaxStream) :
          nSessions = 0 /\ Open("u1", GoodArgs, TRUE, dev)
    \/ OpenSteps("u1")
    \/ Background
    \/ NoAppendRunning /\ ReadLine("u1")
    \/ NoAppendRunning /\ Available("u1")

SpecPoll == Init /\ [][NextPoll]_vars

\* C3: a ReadLine() that fails with io.EOF (Incomplete) removes no byte: the
\* buffer, and so Available(), is the same before and after the call.
C3_IncompleteKeepsBuffer ==
    [][\A c \in Callers :
          (ReadLine(c) /\ ReadLineRet.err = "EOF") => UNCHANGED bufVars]_vars

(***************************************************************************)
(* Spec: the life cycle.  One caller opens and closes the port over at     *)
(* most MaxSessions sessions, with valid and invalid arguments, and calls  *)
(* Read, ReadLine, Available, Write, Print in any state and                *)
(* WaitForRegexTimeout on the closed port, while the goroutines of the     *)
(* session run; the device sends '\n' bytes.  The port is opened again     *)
(* after the goroutines of the session before have ended, and the pattern  *)
(* wait of an open session has its own specifications below.               *)
(***************************************************************************)
\* bytes one device sends in one session under Spec
MaxLifeStream == 1

Patterns == {PatA, PatBad}
Timeouts == {0, PollInterval}

\* what the device sends matters only when the transport is opened
OpenDevs(a, ok, S) == IF OpenError(a, ok) = "" /\ ~portIsOpen THEN S ELSE {<<>>}

\* the goroutines of every session so far have returned
Quiet ==
    \A s \in Sessions : rl[s].pc \in {"none", "done"} /\ pf[s].pc \in {"none", "done"}

Next ==
    \/ \E a \in OpenArgs, ok \in BOOLEAN :
          \E dev \in OpenDevs(a, ok, SeqsUpTo({LF}, MaxLifeStream)) :
             (portIsOpen \/ Quiet) /\ Open("u1", a, ok, dev)
    \/ OpenSteps("u1")
    \/ Close("u1")
    \/ CloseSteps("u1")
    \/ Background
    \/ BackgroundClosed
    \/ Read("u1")
    \/ ReadReset("u1")
    \/ ReadLine("u1")
    \/ Available("u1")
    \/ \E ok \in BOOLEAN : Write("u1", <<97>>, ok)
    \/ \E ok \in BOOLEAN : PrintStr("u1", <<97>>, ok)
    \/ \E p \in Patterns, t \in Timeouts :
          ~portIsOpen /\ WaitForRegexTimeout("u1", p, t)

Spec == InitPlain /\ [][Next]_vars

\* everything but the caller's result and position
sessionState == <<portIsOpen, eol, bufVars, sessVars, goVars, tx, waitVars, panic>>

\* C6: WaitForRegexTimeout on the closed port returns NotOpen at once (the
\* caller is idle again after the step), starts no polling goroutine, and
\* leaves the buffer, the delimiter and the open flag as they were.
C6_WaitClosedNotOpen ==
    [][\A c \in Callers : \A p \in Patterns, t \in Timeouts :
          (~portIsOpen /\ WaitForRegexTimeout(c, p, t))
             => /\ res'[c] = Ret("WaitForRegexTimeout", "NotOpen", <<>>, 0)
                /\ cpc'[c] = "idle"
                /\ UNCHANGED <<poll, nWaits, bufVars, eol, portIsOpen, panic>>]_vars

\* the call was made on a port closed after a session that left unread bytes
C6_Witness ==
    /\ ~portIsOpen /\ nSessions > 0 /\ BufLen > 0
    /\ res["u1"] = Ret("WaitForRegexTimeout", "NotOpen", <<>>, 0)

\* C8: Open on the open port fails with AlreadyOpen whatever its arguments
\* and changes nothing: flag, buffer, channel, transport, goroutines.
C8_OpenWhileOpen ==
    [][\A c \in Callers : \A a \in OpenArgs, ok \in BOOLEAN :
          (portIsOpen /\ Open(c, a, ok, <<>>))
             => /\ res'[c] = Ret("Open", "AlreadyOpen", <<>>, 0)
                /\ cpc'[c] = "idle"
                /\ UNCHANGED sessionState]_vars

\* the second Open returned while the session had unread bytes and both
\* goroutines running
C8_Witness ==
    /\ portIsOpen /\ BufLen > 0
    /\ res["u1"] = Ret("Open", "AlreadyOpen", <<>>, 0)
    /\ \E s \in Sessions : rl[s].pc \notin {"none", "done"} /\ pf[s].pc = "recv"

\* C9: Close on the closed port returns nil and closes neither the channel nor
\* the transport; so whenever the caller is back and the port is closed, the
\* channel and the transport of every session were closed exactly once.
C9_CloseIdempotent ==
    /\ [][\A c \in Callers :
             (~portIsOpen /\ Close(c))
                => /\ res'[c] = Ret("Close", "", <<>>, 0)
                   /\ cpc'[c] = "idle"
                   /\ UNCHANGED sessionState]_vars
    /\ [](\A s \in Sessions :
             /\ chanCloses[s] <= 1 /\ portCloses[s] <= 1
             /\ (CallersIdle /\ ~portIsOpen /\ s <= nSessions)
                   => (chanCloses[s] = 1 /\ portCloses[s] = 1))

\* Close returned on a port that was never opened
C9_Witness ==
    /\ ~portIsOpen /\ nSessions = 0
    /\ res["u1"] = Ret("Close", "", <<>>, 0)

\* C10: on the closed port (never opened, or after Close returned) Read,
\* ReadLine, Write, Print and WaitForRegexTimeout fail with NotOpen, write
\* nothing to the transport and remove nothing from the buffer.
C10_ClosedOpsFail ==
    [][\A c \in Callers :
          (/\ ~portIsOpen
           /\ \/ Read(c)
              \/ ReadLine(c)
              \/ \E ok \in BOOLEAN : Write(c, <<97>>, ok)
              \/ \E ok \in BOOLEAN : PrintStr(c, <<97>>, ok)
              \/ \E p \in Patterns, t \in Timeouts : WaitForRegexTimeout(c, p, t))
             => /\ res'[c].err = "NotOpen"
                /\ cpc'[c] = "idle"
                /\ UNCHANGED sessionState]_vars

\* Read returned NotOpen after a session that left unread bytes
C10_Witness ==
    /\ ~portIsOpen /\ nSessions > 0 /\ BufLen > 0
    /\ res["u1"] = Ret("Read", "NotOpen", <<0>>, 0)

(***************************************************************************)
(* SpecWait: one session, one caller that calls WaitForRegexTimeout once   *)
(* on the open port, with the pattern "a" or a pattern that does not       *)
(* compile, and a timeout of three polling intervals.  The polling         *)
(* goroutine is the only consumer of the buffer and never overlaps an      *)
(* append.  The device sends bytes of {'a', '\n'} after the call and       *)
(* before DeliverBy, a full polling interval before the deadline.  Time    *)
(* passes only when no step of the wait is due and every byte read from    *)
(* the transport is in the buffer.                                         *)
(***************************************************************************)
\* bytes the device sends in a session with a pattern wait
MaxWaitStream == 2

WaitT == 3 * PollInterval
DeliverBy == 2 * PollInterval

PatB == [lit |-> <<98>>, tail |-> FALSE, ok |-> TRUE]

\* a step of a pattern wait can be taken at the present time
WaitStepDue ==
    \/ \E w \in WaitIds : poll[w].pc = "top"
    \/ \E w \in WaitIds : poll[w].pc = "sleep" /\ now >= poll[w].wake
    \/ \E c \in Callers :
          cpc[c] = "wait_select" /\ (poll[cw[c]].c1 # <<>> \/ TimerFired(cw[c]))

TickPrompt == ~WaitStepDue /\ NoAppendRunning /\ Tick

\* time passes when no step of a wait is due
TickDue == ~WaitStepDue /\ Tick

NextWait ==
    \/ \E dev \in SeqsUpTo(ByteA \cup {LF}, MaxWaitStream) :
          nSessions = 0 /\ Open("u1", GoodArgs, TRUE, dev)
    \/ OpenSteps("u1")
    \/ \E s \in Sessions : readTop(s)
    \/ \E s \in Sessions : \E k \in 0..MaxWaitStream :
          nWaits > 0 /\ now < DeliverBy /\ readPort(s, k)
    \/ \E s \in Sessions : readWrite(s)
    \/ \E s \in Sessions : readCopy(s)
    \/ \E s \in Sessions : readChk(s)
    \/ \E s \in Sessions : procTop(s)
    \/ \E s, r \in Sessions : handoff(s, r)
    \/ \E p \in Patterns : portIsOpen /\ WaitForRegexTimeout("u1", p, WaitT)
    \/ \E w \in WaitIds : pollTop(w)
    \/ \E w \in WaitIds : NoAppendRunning /\ pollRead(w)
    \/ selectData("u1")
    \/ selectTimeout("u1")
    \/ TickPrompt

SpecWait == Init /\ [][NextWait]_vars

\* the transport has delivered a complete line with a match for p
MatchDelivered(p) ==
    \E i \in 1..Len(SplitLines(delivered, eol)) :
        HasMatch(SplitLines(delivered, eol)[i], p)

\* C4: when the transport delivers a complete line with a match before the
\* deadline, however its bytes are split over transport reads and polls,
\* the wait does not return Timeout: it returns the first match of the line.
C4_MatchBeforeDeadline ==
    \A c \in Callers :
        (res[c].op = "WaitForRegexTimeout" /\ MatchDelivered(PatA))
            => res[c] = Ret("WaitForRegexTimeout", "", <<97>>, 0)

\* C7: a pattern that does not compile makes WaitForRegexTimeout on the open
\* port return an InvalidPattern error: nothing panics, no polling goroutine
\* starts and the buffer is untouched.
C7_BadPatternIsError ==
    [][\A c \in Callers :
          (portIsOpen /\ WaitForRegexTimeout(c, PatBad, WaitT))
             => /\ res'[c].err = "InvalidPattern"
                /\ panic' = ""
                /\ UNCHANGED <<poll, nWaits, bufVars>>]_vars

(***************************************************************************)
(* SpecWaitFair: one session whose device sends bytes of {'a', '\n'}, one  *)
(* caller that calls WaitForRegexTimeout once with the pattern "a" or "b"  *)
(* and a timeout of one polling interval, and a second caller that may     *)
(* close the port while the first one waits.                               *)
(***************************************************************************)
NextWaitFair ==
    \/ \E dev \in SeqsUpTo(ByteA \cup {LF}, MaxWaitStream) :
          nSessions = 0 /\ Open("u1", GoodArgs, TRUE, dev)
    \/ OpenSteps("u1")
    \/ Background
    \/ BackgroundClosed
    \/ \E p \in {PatA, PatB} : portIsOpen /\ WaitForRegexTimeout("u1", p, PollInterval)
    \/ \E w \in WaitIds : pollTop(w)
    \/ \E w \in WaitIds : pollRead(w)
    \/ selectData("u1")
    \/ selectTimeout("u1")
    \/ Tick
    \/ cpc["u1"] = "wait_select" /\ Close("u2")
    \/ CloseSteps("u2")

\* time passes, and a goroutine that can take a step is eventually scheduled
WaitFairness ==
    /\ WF_vars(Tick)
    /\ WF_vars(selectData("u1") \/ selectTimeout("u1"))
    /\ WF_vars(\E w \in WaitIds : pollTop(w) \/ pollRead(w))
    /\ WF_vars(CloseSteps("u2"))
    /\ WF_vars(Background \/ BackgroundClosed)

SpecWaitFair == InitPlain /\ [][NextWaitFair]_vars /\ WaitFairness

\* the caller waits for a pattern no byte of the device can match
WaitingForB(c) == cpc[c] = "wait_select" /\ poll[cw[c]].pat = PatB

\* C5: a wait for a pattern that no line ever matches returns Timeout, not
\* success and not before the deadline, and it does return, also when the
\* port is closed during the wait.
C5_TimeoutAtDeadline ==
    /\ [](\A c \in Callers :
             (res[c].op = "WaitForRegexTimeout" /\ poll[1].pat = PatB)
                => /\ res[c].err = "Timeout"
                   /\ now >= poll[1].start + poll[1].t)
    /\ \A c \in Callers :
          WaitingForB(c) ~> (res[c].op = "WaitForRegexTimeout" /\ res[c].err = "Timeout")

(***************************************************************************)
(* SpecEol: one session opened with the default delimiter; the device      *)
(* sends bytes of {'a', '\n'}; once all of them are in the buffer the      *)
(* caller may change the delimiter to ';' with EOL and calls ReadLine.     *)
(***************************************************************************)
NextEol ==
    \/ \E dev \in SeqsUpTo(ByteA \cup {LF}, MaxStream) :
          nSessions = 0 /\ Open("u1", GoodArgs, TRUE, dev)
    \/ OpenSteps("u1")
    \/ Background
    \/ \E b \in Semi : AllAppended /\ portIsOpen /\ EOL("u1", b)
    \/ AllAppended /\ portIsOpen /\ ReadLine("u1")

SpecEol == Init /\ [][NextEol]_vars

\* C11: lines that were complete in the buffer under the old delimiter are
\* still returned by ReadLine, one per old delimiter and with the same text,
\* after EOL changed the delimiter: ReadLine fails with io.EOF only when all
\* of them were returned.
C11_OldLinesSurviveEol ==
    /\ IsPrefix(gotLines, ExpectedLines(delivered, EOL_DEFAULT))
    /\ (res["u1"].op = "ReadLine" /\ res["u1"].err = "EOF")
          => gotLines = ExpectedLines(delivered, EOL_DEFAULT)

\* the bytes taken out of the buffer by the successful ReadLine calls: each
\* returned line and its delimiter
RECURSIVE ReturnedBytes(_)
ReturnedBytes(lines) ==
    IF lines = <<>> THEN 0 ELSE Len(Head(lines)) + 1 + ReturnedBytes(Tail(lines))

\* C12: in every state, from New() on, Available() is the number of bytes
\* readSerialPort appended in the session less the number returned by
\* successful reads; so it is 0 before the first Open and right after Open.
C12_AvailableIsUnread ==
    [][\A c \in Callers :
          Available(c) => res'[c].n = Len(delivered) - ReturnedBytes(gotLines)]_vars

\* C13: readSerialPort never sends on rxChar after the channel was closed, and
\* the channel is never closed while readSerialPort is at its send: the
\* "send on closed channel" panic is unreachable.
C13_NoSendOnClosed ==
    /\ panic # "send on closed channel"
    /\ \A s \in Sessions : rl[s].pc = "send" => chanCloses[rl[s].ch] = 0

(***************************************************************************)
(* SpecShut: one session, the device sends '\n' bytes, and the caller      *)
(* closes the port at any moment.  Each goroutine that can take a step     *)
(* eventually takes one.                                                   *)
(***************************************************************************)
\* the steps of readSerialPort and of processSerialPort of session s
ReaderSteps(s) ==
    \/ readTop(s)
    \/ \E k \in 0..MaxStream : readPort(s, k)
    \/ readWrite(s)
    \/ readCopy(s)
    \/ readChk(s)
    \/ readSendClosed(s)
    \/ \E r \in Sessions : handoff(s, r)

FramerSteps(s) ==
    \/ procTop(s)
    \/ procRecvClosed(s)
    \/ \E r \in Sessions : handoff(r, s)

NextShut ==
    \/ \E dev \in SeqsUpTo({LF}, MaxStream) :
          nSessions = 0 /\ Open("u1", GoodArgs, TRUE, dev)
    \/ OpenSteps("u1")
    \/ \E s \in Sessions : ReaderSteps(s)
    \/ \E s \in Sessions : FramerSteps(s)
    \/ Close("u1")
    \/ CloseSteps("u1")

ShutFairness ==
    /\ \A s \in Sessions : WF_vars(ReaderSteps(s)) /\ WF_vars(FramerSteps(s))
    /\ WF_vars(OpenSteps("u1") \/ CloseSteps("u1"))

SpecShut == InitPlain /\ [][NextShut]_vars /\ ShutFairness

\* C14: once Close has closed the transport of a session, the readSerialPort
\* and the processSerialPort of that session both end, wherever they were.
C14_GoroutinesEnd ==
    \A s \in Sessions :
        (portCloses[s] > 0) ~> (rl[s].pc = "done" /\ pf[s].pc = "done")

(***************************************************************************)
(* SpecReopen: up to MaxSessions sessions opened and closed by one caller, *)
(* a Close may be followed by an Open at once, while the goroutines of the *)
(* closed session are still running.  The device sends '\n' bytes.         *)
(***************************************************************************)
NextReopen ==
    \/ \E dev \in SeqsUpTo({LF}, MaxLifeStream) : Open("u1", GoodArgs, TRUE, dev)
    \/ OpenSteps("u1")
    \/ Close("u1")
    \/ CloseSteps("u1")
    \/ Background
    \/ BackgroundClosed

SpecReopen == InitPlain /\ [][NextReopen]_vars

\* C15: a goroutine started by one session never works for another one:
\* readSerialPort of session s reads only transport s and sends only on
\* channel s, processSerialPort of session s receives only from channel s;
\* and they run only while their own session is the open one or is being
\* closed, so that at most one pair is ever at work.
C15_NoStaleGoroutine ==
    \A s \in Sessions :
        /\ rl[s].pc = "read" => rl[s].p = s
        /\ rl[s].pc = "send" => rl[s].ch = s
        /\ pf[s].pc = "recv" => pf[s].ch = s

(***************************************************************************)
(* SpecFrame: the delimiter is chosen before the port is opened ('\n' or   *)
(* the zero byte), one session whose device sends bytes of {'a', 0, '\n'}, *)
(* and a Close at any moment; the lines processSerialPort logs are kept.   *)
(***************************************************************************)
Zero == {0}

NextFrame ==
    \/ \E b \in Zero \cup {LF} : nSessions = 0 /\ EOL("u1", b)
    \/ \E dev \in SeqsUpTo(ByteA \cup Zero \cup {LF}, MaxWaitStream) :
          nSessions = 0 /\ Open("u1", GoodArgs, TRUE, dev)
    \/ OpenSteps("u1")
    \/ Close("u1")
    \/ CloseSteps("u1")
    \/ Background
    \/ BackgroundClosed

SpecFrame == Init /\ [][NextFrame]_vars

\* the lines of a log, one after the other
RECURSIVE Concat(_)
Concat(lines) == IF lines = <<>> THEN <<>> ELSE Head(lines) \o Concat(Tail(lines))

\* C16: for every delimiter, the zero byte included, the lines that
\* processSerialPort emits are made of bytes read from the transport, in
\* order: their concatenation is a prefix of what was read, each ends with
\* the delimiter, and closing the session emits nothing.
C16_EmittedFromTransport ==
    /\ IsPrefix(Concat(emitted), delivered)
    /\ \A i \in 1..Len(emitted) : emitted[i][Len(emitted[i])] = eol

(***************************************************************************)
(* SpecClose2: one session, the device sends '\n' bytes, and two callers   *)
(* that may both call Close at any moment.                                 *)
(***************************************************************************)
NextClose2 ==
    \/ \E dev \in SeqsUpTo({LF}, MaxLifeStream) :
          nSessions = 0 /\ Open("u1", GoodArgs, TRUE, dev)
    \/ OpenSteps("u1")
    \/ \E c \in Callers : Close(c)
    \/ \E c \in Callers : CloseSteps(c)
    \/ Background
    \/ BackgroundClosed

SpecClose2 == InitPlain /\ [][NextClose2]_vars

\* C17: the channel made by an Open is closed exactly once, also when two
\* callers call Close at the same time: no second close of the channel and
\* no second Close of the transport happens.
C17_ClosedOnce ==
    /\ panic # "close of closed channel"
    /\ \A s \in Sessions : chanCloses[s] <= 1 /\ portCloses[s] <= 1

\* a readSerialPort goroutine is inside sp.buff.Write with bytes to append,
\* between the reslice and the copy
AppendRunning == \E s \in Sessions : rl[s].pc = "copy" /\ rl[s].buf # <<>>

\* a step of caller c that works on sp.buff
BufferOp(c) ==
    \/ portIsOpen /\ Read(c)
    \/ ReadReset(c)
    \/ portIsOpen /\ ReadLine(c)
    \/ Available(c)
    \/ OpenReset(c)

\* C18: no two goroutines are inside an operation on sp.buff at once: no
\* Read, ReadLine, Available or reset of Open works on the buffer while
\* readSerialPort is inside its append.
C18_BufferExclusive ==
    [][\A c \in Callers : BufferOp(c) => ~AppendRunning]_vars

(***************************************************************************)
(* SpecStale: a first session, closed at any moment, then a second one,    *)
(* opened at once, by one caller; the device of session n sends bytes of   *)
(* value n.  In the second session the caller calls Read, never while an   *)
(* append is running.                                                      *)
(***************************************************************************)
NextStale ==
    \/ \E dev \in SeqsUpTo({nSessions + 1}, MaxLifeStream) :
          Open("u1", GoodArgs, TRUE, dev)
    \/ OpenSteps("u1")
    \/ nSessions = 1 /\ Close("u1")
    \/ CloseSteps("u1")
    \/ Background
    \/ BackgroundClosed
    \/ nSessions > 1 /\ portIsOpen /\ NoAppendRunning /\ Read("u1")
    \/ ReadReset("u1")

SpecStale == InitPlain /\ [][NextStale]_vars

\* C19: once Open has returned, Read returns only bytes read from the
\* transport that this Open opened, never a byte of an earlier session.
C19_FreshBuffer ==
    (res["u1"].op = "Read" /\ res["u1"].err = "") => res["u1"].val = <<port>>

(***************************************************************************)
(* SpecWaitEnd: one session whose device sends the line "a\n" or "\n" in    *)
(* any batching, and a caller that calls WaitForRegexTimeout up to         *)
(* MaxWaits times, one call after the other, with the pattern "a" or "b"   *)
(* and a timeout of one polling interval.  Time passes when no step of a   *)
(* wait is due, and every goroutine that can take a step takes one.        *)
(***************************************************************************)
\* what the device sends: a line with an 'a', or an empty line
WaitLines == {<<97, LF>>, <<LF>>}

NextWaitEnd ==
    \/ \E dev \in WaitLines : nSessions = 0 /\ Open("u1", GoodArgs, TRUE, dev)
    \/ OpenSteps("u1")
    \/ Background
    \/ \E p \in {PatA, PatB} : portIsOpen /\ WaitForRegexTimeout("u1", p, PollInterval)
    \/ \E w \in WaitIds : pollTop(w)
    \/ \E w \in WaitIds : pollRead(w)
    \/ selectData("u1")
    \/ selectTimeout("u1")
    \/ TickDue

WaitEndFairness ==
    /\ WF_vars(TickDue)
    /\ WF_vars(selectData("u1") \/ selectTimeout("u1"))
    /\ WF_vars(\E w \in WaitIds : pollTop(w) \/ pollRead(w))
    /\ WF_vars(Background)

SpecWaitEnd == InitPlain /\ [][NextWaitEnd]_vars /\ WaitEndFairness

\* C20: every polling goroutine ends, after a match and after a Timeout.
\* Once timeExpired is set the goroutine leaves the loop at its next test,
\* so it does at most the ReadLine in flight; the flag stays set and an
\* ended goroutine stays ended; and the send of a match finds room in c1,
\* whether or not anyone receives it.
C20_PollerEnds ==
    /\ \A w \in WaitIds : (poll[w].pc \in {"top", "sleep"}) ~> (poll[w].pc = "done")
    /\ [][\A w \in WaitIds :
             /\ (pollTop(w) /\ poll[w].expired) => poll'[w].pc = "done"
             /\ poll[w].expired => poll'[w].expired
             /\ poll[w].pc = "done" => poll'[w].pc = "done"
             /\ (pollRead(w) /\ poll'[w].c1 # <<>>)
                    => (poll[w].c1 = <<>> /\ poll'[w].pc = "done")]_vars

\* the goroutine has ended after publishing a match that nobody received:
\* the caller had already returned Timeout
C20_Witness ==
    /\ poll[1].pc = "done" /\ poll[1].c1 # <<>> /\ poll[1].expired
    /\ res["u1"] = Ret("WaitForRegexTimeout", "Timeout", <<>>, 0)

====
